---- MODULE Spec2Model ----
(***************************************************************************)
(* Model of graph.TopSort (src/graph/top_sort.go): a depth-first           *)
(* topological sort over a caller-supplied NodeProvider.                   *)
(*                                                                         *)
(* The recursion of dfsVisit is unfolded into an explicit call stack: one  *)
(* frame per active dfsVisit, holding its node, its loop index i and its   *)
(* path argument.  pc is the position of the single thread of control:     *)
(*   "idle"    TopSort has not been called                                 *)
(*   "range"   at the head of TopSort's loop over the roots (line 69)      *)
(*   "call"    dfsVisit is entered with the arguments in arg (line 79)     *)
(*   "loop"    at the head of the child loop of the top frame (line 92)    *)
(*   "return"  a dfsVisit has returned err to its caller                   *)
(*   "done"    TopSort has returned outcome                                *)
(*                                                                         *)
(* The provider is the caller's.  Its graph is fixed one vertex at a time, *)
(* the first time the sorter asks for the children of that vertex, and     *)
(* never changes afterwards (a deterministic provider).  A child entry 0   *)
(* stands for an index at which Child returns an error.                    *)
(*                                                                         *)
(* Vertices are opaque to the sorter, which only passes them back to the   *)
(* provider and compares their identifiers for equality (lines 81, 85), so *)
(* the caller's vertices are numbered in the order in which the caller     *)
(* first mentions them, as a root or as a child: a root or child entry is  *)
(* a vertex mentioned before or the next unused number.  The caller makes   *)
(* at most MaxMentions mentions in all: the root entries of its first call *)
(* and the child entries of its graph.                                     *)
(***************************************************************************)
EXTENDS Integers, Sequences, FiniteSets, TLC

\* ---------------------------------------------------------------- bounds
NumVertices == 4
MaxMentions == 5
MaxCalls == 2

\* ------------------------------------------------------------- constants
stateNew == 0
stateOpen == 1
stateClosed == 2

Vertices == 1..NumVertices
LookupFails == 0

VARIABLES
    providerNil,     \* nodeProvider == nil
    children,        \* the provider's graph: vertex -> its child entries
    asked,           \* vertices whose child list the provider has fixed
    roots,           \* the graph argument of TopSort
    rootIdx,         \* position of TopSort's range loop (1-based)
    traversalState,  \* id -> tState
    results,         \* the results slice (*sorted in dfsVisit)
    stack,           \* active dfsVisit frames, innermost last
    arg,             \* arguments of the dfsVisit being entered
    err,             \* error value being returned
    outcome,         \* what TopSort returned
    pc,
    providerCalls,   \* number of provider operations called in this call
    calls,           \* number of TopSort invocations started
    log              \* completed invocations: <<roots, outcome>>

vars == <<providerNil, children, asked, roots, rootIdx, traversalState,
          results, stack, arg, err, outcome, pc, providerCalls, calls, log>>

\* ----------------------------------------------------------- data values
Range(s) == {s[k] : k \in 1..Len(s)}

RECURSIVE SumLen(_, _)
SumLen(f, S) ==
    IF S = {} THEN 0
    ELSE LET v == CHOOSE x \in S : TRUE
         IN  Len(f[v]) + SumLen(f, S \ {v})

Max(a, b) == IF a >= b THEN a ELSE b
Min(a, b) == IF a <= b THEN a ELSE b

RECURSIVE MaxOf(_)
MaxOf(S) ==
    IF S = {} THEN 0
    ELSE LET x == CHOOSE y \in S : TRUE
         IN  Max(x, MaxOf(S \ {x}))

\* Sequences of at most n entries, each an entry of `low`, a vertex numbered up
\* to m (mentioned before) or the next unused vertex.
RECURSIVE MentionSeqs(_, _, _)
MentionSeqs(low, m, n) ==
    IF n = 0 THEN {<<>>}
    ELSE {<<>>} \cup
         UNION {{<<x>> \o t : t \in MentionSeqs(low, Max(m, x), n - 1)} :
                x \in low \cup (1..Min(m + 1, NumVertices))}

NilError == [kind |-> "nil", Path |-> <<>>, vertex |-> 0, index |-> 0]
InvalidProviderError ==
    [kind |-> "nodeProvider should be a valid reference",
     Path |-> <<>>, vertex |-> 0, index |-> 0]
CycleError(path) == [kind |-> "CycleError", Path |-> path, vertex |-> 0, index |-> 0]
\* The provider's own error for Child(vertex, index).
ChildLookupError(vertex, index) ==
    [kind |-> "ChildLookupError", Path |-> <<>>, vertex |-> vertex, index |-> index]

\* What TopSort returns; isNil tells a nil slice from an empty one.
NoOutcome == [returned |-> FALSE, isNil |-> TRUE, results |-> <<>>, err |-> NilError]
Returned(res, e) == [returned |-> TRUE, isNil |-> FALSE, results |-> res, err |-> e]
\* Lines 63, 72: return nil, err.  (Variant: the results so far are returned
\* with the error.)
ReturnedPartial(e) == [returned |-> TRUE, isNil |-> FALSE, results |-> results, err |-> e]
ReturnedNil(e) == [returned |-> TRUE, isNil |-> TRUE, results |-> <<>>, err |-> e]

NoArg == [node |-> 0, path |-> <<>>]

\* ------------------------------------------------------------- provider
\* ID "uniquely identifies the vertex" (lines 36-38): the caller's vertices
\* are told apart by their identifiers, and a vertex stands for its own.
ID(vertex) == vertex
ChildCount(vertex) == Len(children[vertex])
ChildFails(vertex, index) == children[vertex][index + 1] = LookupFails
Child(vertex, index) == children[vertex][index + 1]

\* ------------------------------------------------- pieces of the sorter
\* Each piece is preceded by a faulty variant of it, which the properties
\* below must tell apart from the piece itself.

\* Line 66: a fresh map; a missing key reads as the zero value, stateNew.
\* (Variant: the map of the previous invocation is kept.)
MakeTraversalStateKept == traversalState
MakeTraversalState == [id \in Vertices |-> stateNew]

\* Line 67.
MakeResults == <<>>

\* Lines 82 and 90: append(path, node).  dfsVisit runs its children one after
\* the other and a caller never reads beyond the length of its own slice, so
\* a backing array shared between the slices is never observed: append acts
\* on the value of the slice.  (Variant: the node is not appended.)
AppendPathDropped(path, node) == path
AppendPath(path, node) == Append(path, node)

\* Lines 81 and 85.  (Variant: a closed vertex is not recognised.)
IsOpen(id) == traversalState[id] = stateOpen
IsClosedNever(id) == FALSE
IsClosed(id) == traversalState[id] = stateClosed

\* Line 89.  (Variant: the vertex is closed as soon as it is opened.)
MarkOpenAsClosed(id) == [traversalState EXCEPT ![id] = stateClosed]
MarkOpen(id) == [traversalState EXCEPT ![id] = stateOpen]

\* Line 103.
MarkClosed(id) == [traversalState EXCEPT ![id] = stateClosed]

\* Line 104: *sorted = append(*sorted, node).  (Variant: the node is put
\* in front.)
PrependSorted(node) == <<node>> \o results
AppendSorted(node) == Append(results, node)

\* Line 92: i++.
NextIndex(i) == i + 1

\* The highest vertex number the caller has mentioned so far.
Mentioned ==
    MaxOf(Range(roots) \cup UNION {Range(children[v]) : v \in Vertices}
          \cup UNION {Range(log[k][1]) : k \in 1..Len(log)})

\* The number of root entries of the caller's first call.
RootMentions == IF log = <<>> THEN Len(roots) ELSE Len(log[1][1])

\* The sequences obtained from s by leaving out some of its entries.
RECURSIVE SubSeqs(_)
SubSeqs(s) ==
    IF s = <<>> THEN {<<>>}
    ELSE LET rest == SubSeqs(Tail(s))
         IN  rest \cup {<<Head(s)>> \o t : t \in rest}

\* ----------------------------------------------------------------- Init
Init ==
    /\ providerNil \in BOOLEAN
    /\ children = [v \in Vertices |-> <<>>]
    /\ asked = {}
    /\ roots \in MentionSeqs({}, 0, MaxMentions)
    /\ rootIdx = 1
    /\ traversalState = [id \in Vertices |-> stateNew]
    /\ results = <<>>
    /\ stack = <<>>
    /\ arg = NoArg
    /\ err = NilError
    /\ outcome = NoOutcome
    /\ pc = "idle"
    /\ providerCalls = 0
    /\ calls = 0
    /\ log = <<>>

\* -------------------------------------------------------------- actions
\* The provider fixes the child list of the vertex whose children the
\* sorter is about to enumerate.
ProviderAnswer ==
    /\ pc = "loop"
    /\ stack[Len(stack)].node \notin asked
    /\ \E cs \in MentionSeqs({LookupFails}, Mentioned,
                             MaxMentions - RootMentions - SumLen(children, Vertices)) :
          children' = [children EXCEPT ![stack[Len(stack)].node] = cs]
    /\ asked' = asked \cup {stack[Len(stack)].node}
    /\ UNCHANGED <<providerNil, roots, rootIdx, traversalState, results, stack,
                   arg, err, outcome, pc, providerCalls, calls, log>>

\* TopSort, lines 61-67.
TopSortBegin ==
    /\ pc = "idle"
    /\ calls' = calls + 1
    /\ providerCalls' = 0
    /\ IF providerNil
       THEN /\ outcome' = ReturnedNil(InvalidProviderError)
            /\ log' = Append(log, <<roots, outcome'>>)
            /\ pc' = "done"
            /\ UNCHANGED <<traversalState, results, rootIdx>>
       ELSE /\ traversalState' = MakeTraversalState
            /\ results' = MakeResults
            /\ rootIdx' = 1
            /\ outcome' = NoOutcome
            /\ pc' = "range"
            /\ UNCHANGED log
    /\ err' = NilError
    /\ UNCHANGED <<providerNil, children, asked, roots, stack, arg>>

\* TopSort, lines 69-70 and 76: the next root is visited, or results returned.
TopSortRange ==
    /\ pc = "range"
    /\ IF rootIdx <= Len(roots)
       THEN /\ arg' = [node |-> roots[rootIdx], path |-> <<>>]
            /\ pc' = "call"
            /\ UNCHANGED <<outcome, log>>
       ELSE /\ outcome' = Returned(results, NilError)
            /\ log' = Append(log, <<roots, outcome'>>)
            /\ pc' = "done"
            /\ UNCHANGED arg
    /\ UNCHANGED <<providerNil, children, asked, roots, rootIdx, traversalState,
                   results, stack, err, providerCalls, calls>>

\* dfsVisit, lines 80-90.
VisitEnter ==
    /\ pc = "call"
    /\ providerCalls' = providerCalls + 1
    /\ LET id == ID(arg.node)
       IN  IF IsOpen(id)
           THEN /\ err' = CycleError(AppendPath(arg.path, arg.node))
                /\ pc' = "return"
                /\ UNCHANGED <<traversalState, stack>>
           ELSE IF IsClosed(id)
           THEN /\ err' = NilError
                /\ pc' = "return"
                /\ UNCHANGED <<traversalState, stack>>
           ELSE /\ traversalState' = MarkOpen(id)
                /\ stack' = Append(stack, [node |-> arg.node, i |-> 0,
                                           path |-> AppendPath(arg.path, arg.node)])
                /\ pc' = "loop"
                /\ UNCHANGED err
    /\ arg' = NoArg
    /\ UNCHANGED <<providerNil, children, asked, roots, rootIdx, results,
                   outcome, calls, log>>

Pop(s) == SubSeq(s, 1, Len(s) - 1)

\* dfsVisit, lines 92-97 and 103-105: one turn of the child loop, or the close.
VisitLoop ==
    /\ pc = "loop"
    /\ stack[Len(stack)].node \in asked
    /\ LET f == stack[Len(stack)]
       IN  IF f.i < ChildCount(f.node)
           THEN /\ providerCalls' = providerCalls + 2
                /\ IF ChildFails(f.node, f.i)
                   THEN /\ err' = ChildLookupError(f.node, f.i)
                        /\ stack' = Pop(stack)
                        /\ pc' = "return"
                        /\ UNCHANGED arg
                   ELSE /\ arg' = [node |-> Child(f.node, f.i), path |-> f.path]
                        /\ pc' = "call"
                        /\ UNCHANGED <<err, stack>>
                /\ UNCHANGED <<traversalState, results>>
           ELSE /\ providerCalls' = providerCalls + 1
                /\ traversalState' = MarkClosed(ID(f.node))
                /\ results' = AppendSorted(f.node)
                /\ err' = NilError
                /\ stack' = Pop(stack)
                /\ pc' = "return"
                /\ UNCHANGED arg
    /\ UNCHANGED <<providerNil, children, asked, roots, rootIdx, outcome, calls, log>>

\* The caller takes the returned error: dfsVisit lines 98-101, TopSort lines 71-74.
VisitReturn ==
    /\ pc = "return"
    /\ IF stack # <<>>
       THEN IF err # NilError
            THEN /\ stack' = Pop(stack)
                 /\ UNCHANGED <<pc, rootIdx, outcome, log>>
            ELSE /\ stack' = [stack EXCEPT ![Len(stack)].i = NextIndex(@)]
                 /\ pc' = "loop"
                 /\ UNCHANGED <<rootIdx, outcome, log>>
       ELSE IF err # NilError
            THEN /\ outcome' = ReturnedNil(err)
                 /\ log' = Append(log, <<roots, outcome'>>)
                 /\ pc' = "done"
                 /\ UNCHANGED <<stack, rootIdx>>
            ELSE /\ rootIdx' = rootIdx + 1
                 /\ pc' = "range"
                 /\ UNCHANGED <<stack, outcome, log>>
    /\ UNCHANGED <<providerNil, children, asked, roots, traversalState, results,
                   arg, err, providerCalls, calls>>

\* The caller invokes TopSort again with the same provider, and with the same
\* roots or some of them.
Reinvoke ==
    /\ pc = "done"
    /\ calls < MaxCalls
    /\ roots' \in SubSeqs(roots)
    /\ pc' = "idle"
    /\ UNCHANGED <<providerNil, children, asked, rootIdx, traversalState, results,
                   stack, arg, err, outcome, providerCalls, calls, log>>

Next ==
    \/ ProviderAnswer
    \/ TopSortBegin
    \/ TopSortRange
    \/ VisitEnter
    \/ VisitLoop
    \/ VisitReturn

Spec == Init /\ [][Next]_vars

NextRepeat == Next \/ Reinvoke

SpecRepeat == Init /\ [][NextRepeat]_vars

\* ------------------------------------------------------ graph vocabulary
\* The children of v whose lookup succeeds: the edges v -> c of the graph.
Succ(v) == Range(children[v]) \ {LookupFails}

\* The vertices reachable from the set S along edges, S included.
RECURSIVE Reach(_)
Reach(S) ==
    LET more == S \cup UNION {Succ(v) : v \in S}
    IN  IF more = S THEN S ELSE Reach(more)

ReachableFrom(rs) == Reach(Range(rs))
OnCycle(v) == v \in Reach(Succ(v))
CycleReachable(rs) == \E v \in ReachableFrom(rs) : OnCycle(v)
Acyclic(rs) == ~CycleReachable(rs)
AllLookupsSucceed(rs) ==
    \A v \in ReachableFrom(rs) : LookupFails \notin Range(children[v])

NoDuplicates(s) == \A j, k \in 1..Len(s) : s[j] = s[k] => j = k
OpenIds == {id \in Vertices : traversalState[id] = stateOpen}
ClosedIds == {id \in Vertices : traversalState[id] = stateClosed}

Finished == pc = "done" /\ ~providerNil
Succeeded == Finished /\ outcome.err = NilError
Failed == Finished /\ outcome.err # NilError

\* ----------------------------------------------------------------- C1
\* C1: when TopSort succeeds, for every edge parent -> child between vertices
\* of the returned sequence, no position of the child comes after a position
\* of the parent.
C1_ChildNeverAfterParent ==
    Succeeded =>
        \A i, j \in 1..Len(outcome.results) :
            outcome.results[j] \in Succ(outcome.results[i]) => j <= i

\* A successful sort of a vertex with a child that two parents share.
C1_Witness ==
    /\ Succeeded
    /\ \E p, q \in Range(outcome.results) :
          p # q /\ Succ(p) \cap Succ(q) # {} /\ Len(outcome.results) >= 3

\* ----------------------------------------------------------------- C2
\* C2: for an acyclic graph whose child lookups all succeed, TopSort returns,
\* without failure, a sequence that holds exactly the vertices reachable from
\* the roots, each once; with zero roots it is the empty sequence.
C2_ExactlyReachableOnce ==
    (Finished /\ Acyclic(roots) /\ AllLookupsSucceed(roots)) =>
        /\ outcome.err = NilError
        /\ ~outcome.isNil
        /\ Range(outcome.results) = ReachableFrom(roots)
        /\ NoDuplicates(outcome.results)
        /\ (roots = <<>> => outcome.results = <<>>)

\* A successful sort in which two parents share a child.
C2_Witness ==
    /\ Succeeded
    /\ Len(outcome.results) >= 3
    /\ \E c \in Vertices :
          Cardinality({p \in ReachableFrom(roots) : c \in Succ(p)}) >= 2

\* ----------------------------------------------------------------- C3
\* C3: when every child lookup succeeds, TopSort fails with CycleError if and
\* only if a cycle (a self-loop or a longer one) is reachable from the roots.
C3_CycleErrorIffCycle ==
    (Finished /\ AllLookupsSucceed(roots)) =>
        (outcome.err.kind = "CycleError" <=> CycleReachable(roots))

\* A CycleError for a cycle of more than one vertex that does not pass
\* through the root.
C3_Witness ==
    /\ Finished
    /\ AllLookupsSucceed(roots)
    /\ outcome.err.kind = "CycleError"
    /\ roots # <<>>
    /\ ~OnCycle(roots[1])
    /\ \A v \in Vertices : v \notin Succ(v)

\* ----------------------------------------------------------------- C4
\* C4: once a visit has failed, every further step leaves the error value,
\* the traversal state, the results, the provider (no further operation is
\* called on it, no further child list is asked for) and the position in the
\* roots unchanged, only returns to the callers, and ends with TopSort
\* returning that same error and a nil result.
C4_FirstFailureEndsSort ==
    [][ err # NilError =>
          /\ err' = err
          /\ traversalState' = traversalState
          /\ results' = results
          /\ providerCalls' = providerCalls
          /\ children' = children
          /\ asked' = asked
          /\ rootIdx' = rootIdx
          /\ pc' \in {"return", "done"}
          /\ Len(stack') <= Len(stack)
          /\ (pc' = "done" =>
                /\ outcome'.returned
                /\ outcome'.isNil
                /\ outcome'.results = <<>>
                /\ outcome'.err = err) ]_vars

\* A child lookup failed after a vertex had been appended, with a child of
\* the failing vertex and a root still to come, and TopSort has returned.
C4_Witness ==
    /\ Failed
    /\ outcome.err.kind = "ChildLookupError"
    /\ outcome.err = ChildLookupError(outcome.err.vertex, outcome.err.index)
    /\ children[outcome.err.vertex][outcome.err.index + 1] = LookupFails
    /\ outcome.err.index + 1 < Len(children[outcome.err.vertex])
    /\ results # <<>>
    /\ rootIdx < Len(roots)
    /\ outcome.isNil

\* ----------------------------------------------------------------- C5
\* C5: the path of a CycleError starts at the vertex that is re-entered: its
\* first and last elements have the same identifier, and no earlier vertex of
\* the visit is in it.
C5_PathStartsAtRepeatedVertex ==
    err.kind = "CycleError" =>
        /\ Len(err.Path) >= 2
        /\ ID(err.Path[1]) = ID(err.Path[Len(err.Path)])
        /\ \A k \in 2..(Len(err.Path) - 1) :
              ID(err.Path[k]) # ID(err.Path[Len(err.Path)])

\* ----------------------------------------------------------------- C6
\* C6: the path of a CycleError is the chain of in-progress vertices of the
\* root being processed, in the order they were opened (the active visits
\* are a prefix of it), each the child of the one before, followed by the
\* re-entered vertex, whose identifier is that of exactly one earlier element.
C6_PathIsCurrentPathPlusVertex ==
    err.kind = "CycleError" =>
        LET P == err.Path
            n == Len(P)
        IN  /\ n >= 2
            /\ Len(stack) < n
            /\ \A k \in 1..Len(stack) : stack[k].node = P[k]
            /\ P[1] = roots[rootIdx]
            /\ \A k \in 1..(n - 1) : P[k + 1] \in Succ(P[k])
            /\ {ID(P[k]) : k \in 1..(n - 1)} = OpenIds
            /\ NoDuplicates(SubSeq(P, 1, n - 1))
            /\ Cardinality({k \in 1..(n - 1) : ID(P[k]) = ID(P[n])}) = 1

\* The cycle A -> B -> C -> A found from root A: the path is A, B, C, A.
C6_Witness ==
    /\ Failed
    /\ roots = <<1>>
    /\ outcome.err = CycleError(<<1, 2, 3, 1>>)

\* ----------------------------------------------------------------- C7
\* The roots rs without the entries that are, or are reachable from, an
\* earlier entry.
RECURSIVE PruneFrom(_, _)
PruneFrom(rs, k) ==
    IF k > Len(rs) THEN <<>>
    ELSE (IF \E j \in 1..(k - 1) : rs[k] \in Reach({rs[j]}) THEN <<>> ELSE <<rs[k]>>)
         \o PruneFrom(rs, k + 1)

Prune(rs) == PruneFrom(rs, 1)

\* C7: visiting a root that is already closed changes neither the traversal
\* state nor the results and returns no error; and for an acyclic graph whose
\* lookups succeed, TopSort of the roots and TopSort of the roots without the
\* entries that repeat, or are reachable from, an earlier root return the same
\* (compared whenever an invocation has returned; a later invocation's roots
\* are some of an earlier one's, so the pruned roots are the later ones).
C7_DuplicateRootsIdempotent ==
    /\ [](pc = "done" =>
            \A a, b \in 1..Len(log) :
               (/\ a < b
                /\ ~providerNil
                /\ log[b][1] = Prune(log[a][1])
                /\ Acyclic(log[a][1])
                /\ AllLookupsSucceed(log[a][1])) => log[b][2] = log[a][2])
    /\ [][(pc = "call" /\ stack = <<>> /\ traversalState[ID(arg.node)] = stateClosed) =>
            /\ traversalState' = traversalState
            /\ results' = results
            /\ stack' = stack
            /\ err' = NilError]_vars

\* Two successful sorts of the same graph, the first with a root that repeats
\* an earlier root and a root reachable from an earlier root, the second
\* with those left out.
C7_Witness ==
    /\ ~providerNil
    /\ Len(log) = 2
    /\ log[1][2].err = NilError
    /\ log[2][1] = Prune(log[1][1])
    /\ Len(log[1][1]) >= Len(log[2][1]) + 2
    /\ NoDuplicates(log[2][1])
    /\ \E k \in 1..Len(log[1][1]) : \A j \in 1..Len(log[1][1]) :
          j # k => log[1][1][j] # log[1][1][k]
    /\ Len(log[1][2].results) >= 2

\* ----------------------------------------------------------------- C8
\* C8: every invocation starts from an empty traversal state and an empty
\* result, and two invocations with the same provider and the same roots
\* return the same outcome.
C8_SameInputSameOutcome ==
    /\ \A a, b \in 1..Len(log) : log[a][1] = log[b][1] => log[a][2] = log[b][2]
    /\ (pc = "range" /\ rootIdx = 1) =>
          /\ traversalState = [id \in Vertices |-> stateNew]
          /\ results = <<>>

\* The same roots sorted twice, successfully, after each other.
C8_Witness ==
    /\ Len(log) = 2
    /\ log[1][1] = log[2][1]
    /\ log[2][2].err = NilError
    /\ Len(log[2][2].results) >= 3

\* ----------------------------------------------------------------- C9
\* The order in which a depth-first traversal finishes the vertices, taking
\* the vertices of vs from left to right and children by increasing index;
\* acc holds the vertices finished so far.  Defined for acyclic graphs
\* without failing lookups.
RECURSIVE FinishAll(_, _)
FinishAll(vs, acc) ==
    IF vs = <<>> THEN acc
    ELSE LET v == Head(vs)
             after == IF v \in Range(acc) THEN acc
                      ELSE Append(FinishAll(children[v], acc), v)
         IN  FinishAll(Tail(vs), after)

FinishOrder(rs) == FinishAll(rs, <<>>)

\* C9: the returned sequence is the depth-first finishing order, roots left
\* to right and children by increasing index.  For roots [a] with children
\* a: [b, c], b: [d], c: [d], d: [] it is [d, b, c, a], whichever of a's two
\* children is enumerated first being the one that follows d.
C9_DepthFirstFinishOrder ==
    /\ (Finished /\ Acyclic(roots) /\ AllLookupsSucceed(roots)) =>
          outcome.results = FinishOrder(roots)
    /\ \A a, b, c, d \in Vertices :
          (/\ Finished
           /\ Cardinality({a, b, c, d}) = 4
           /\ roots = <<a>>
           /\ children[a] = <<b, c>>
           /\ children[b] = <<d>>
           /\ children[c] = <<d>>
           /\ children[d] = <<>>) =>
              /\ outcome.err = NilError
              /\ outcome.results = <<d, b, c, a>>

\* The example graph, sorted.
C9_Witness ==
    /\ Succeeded
    /\ roots = <<1>>
    /\ children[1] = <<2, 3>>
    /\ children[2] = <<4>>
    /\ children[3] = <<4>>
    /\ children[4] = <<>>
    /\ outcome.results = <<4, 2, 3, 1>>

\* ---------------------------------------------------------------- C10
\* The path argument of the innermost active visit.
CurrentPath == IF stack = <<>> THEN <<>> ELSE stack[Len(stack)].path
PathIds == {ID(CurrentPath[k]) : k \in 1..Len(CurrentPath)}

StateOnlyAdvances ==
    \A id \in Vertices :
        \/ traversalState'[id] = traversalState[id]
        \/ traversalState[id] = stateNew /\ traversalState'[id] = stateOpen
        \/ traversalState[id] = stateOpen /\ traversalState'[id] = stateClosed

AppendedWhenClosed ==
    IF ClosedIds' = ClosedIds THEN results' = results
    ELSE \E v \in Vertices :
            /\ ClosedIds' = ClosedIds \cup {ID(v)}
            /\ results' = Append(results, v)

ResultsAreTheClosed ==
    /\ {ID(results[k]) : k \in 1..Len(results)} = ClosedIds
    /\ NoDuplicates(results)
    /\ \A v \in Vertices : ID(v) \in ClosedIds =>
          /\ LookupFails \notin Range(children[v])
          /\ \A c \in Succ(v) : ID(c) \in ClosedIds

\* C10 as stated: in every state of a call the in-progress identifiers are
\* exactly those of the current visit path.
C10_OpenIsPathAlways ==
    /\ [](OpenIds = PathIds /\ ResultsAreTheClosed)
    /\ [][StateOnlyAdvances /\ AppendedWhenClosed]_vars

\* C10, amended: a state only advances stateNew -> stateOpen -> stateClosed;
\* until a visit fails the in-progress identifiers are exactly those of the
\* current visit path, and from the failure on they stay in progress while
\* the path unwinds; none is in progress between two roots or when TopSort
\* returns a result; the results are the closed vertices, in the order they
\* were closed, and every child of a closed vertex is closed.
C10_OpenIsPathUntilFailure ==
    /\ [](/\ err = NilError => OpenIds = PathIds
          /\ PathIds \subseteq OpenIds
          /\ (pc = "range" \/ Succeeded) => OpenIds = {}
          /\ ResultsAreTheClosed)
    /\ [][StateOnlyAdvances /\ AppendedWhenClosed]_vars

\* A failed visit is returning: a vertex closed earlier, and vertices still
\* in progress that are no longer on the path of the active visits.
C10_Witness ==
    /\ err # NilError
    /\ pc = "return"
    /\ PathIds # {}
    /\ PathIds # OpenIds
    /\ PathIds \subseteq OpenIds
    /\ ClosedIds # {}
====
